---- MODULE Spec2Model ----
(***************************************************************************)
(* keyway docker: the argument-rewriting engine of internal/cmd/docker.go. *)
(* Tokens, keys and values are strings; the string functions of the Go     *)
(* standard library the code calls are defined on them character by        *)
(* character.  Indices follow Go: a cursor i names args[i], the (i+1)-th   *)
(* element of the TLA+ sequence.                                           *)
(***************************************************************************)
EXTENDS Integers, Sequences, FiniteSets, TLC

(* ------------------------------ bounds -------------------------------- *)

\* longest DockerArgs handed to runDockerRun / runDockerCompose
MaxArgs == 3

\* longest token sequence handed to the two scanners on their own
MaxScanArgs == 3

\* longest DockerArgs of a whole runDockerWithDeps pipeline
MaxPipeArgs == 1

(* --------------------------- Go's strings ----------------------------- *)

\* strings.HasPrefix
HasPrefix(s, prefix) ==
    Len(s) >= Len(prefix) /\ SubSeq(s, 1, Len(prefix)) = prefix

\* strings.Index: the 0-based index of the first sep in s, -1 when absent
Index(s, sep) ==
    LET hits == { i \in 0 .. (Len(s) - Len(sep)) :
                      SubSeq(s, i + 1, i + Len(sep)) = sep }
    IN  IF hits = {} THEN -1
        ELSE CHOOSE i \in hits : \A j \in hits : i <= j

\* strings.Contains
Contains(s, substr) == Index(s, substr) >= 0

\* strings.TrimPrefix
TrimPrefix(s, prefix) ==
    IF HasPrefix(s, prefix) THEN SubSeq(s, Len(prefix) + 1, Len(s)) ELSE s

\* strings.SplitN(s, sep, 2): cut at the first sep only
SplitN2(s, sep) ==
    LET at == Index(s, sep)
    IN  IF at < 0 THEN << s >>
        ELSE << SubSeq(s, 1, at), SubSeq(s, at + Len(sep) + 1, Len(s)) >>

\* fmt.Sprintf("%s=%s", k, v)
SprintfKV(k, v) == k \o "=" \o v

(* ------------------------------- maps --------------------------------- *)

\* make(map[string]string)
EmptyMap == [k \in {} |-> ""]

\* m[k] = v
MapPut(m, k, v) == [x \in (DOMAIN m) \cup {k} |-> IF x = k THEN v ELSE m[x]]

(* ------------------------- findImagePosition -------------------------- *)

\* Flags that take a value (require skipping next arg)
flagsWithValue == {
    "-a", "--attach", "--add-host", "--blkio-weight",
    "--blkio-weight-device", "--cap-add", "--cap-drop", "--cgroup-parent",
    "--cgroupns", "--cidfile", "--cpu-count", "--cpu-percent",
    "--cpu-period", "--cpu-quota", "--cpu-rt-period", "--cpu-rt-runtime",
    "--cpu-shares", "-c", "--cpus", "--cpuset-cpus", "--cpuset-mems",
    "--device", "--device-cgroup-rule", "--device-read-bps",
    "--device-read-iops", "--device-write-bps", "--device-write-iops",
    "--dns", "--dns-option", "--dns-search", "--domainname", "--entrypoint",
    "-e", "--env", "--env-file", "--expose", "--gpus", "--group-add",
    "--health-cmd", "--health-interval", "--health-retries",
    "--health-start-period", "--health-timeout", "-h", "--hostname", "--ip",
    "--ip6", "--ipc", "--isolation", "--kernel-memory", "-l", "--label",
    "--label-file", "--link", "--link-local-ip", "--log-driver", "--log-opt",
    "--mac-address", "-m", "--memory", "--memory-reservation",
    "--memory-swap", "--memory-swappiness", "--mount", "--name", "--network",
    "--net", "--network-alias", "--net-alias", "--oom-score-adj", "--pid",
    "--pids-limit", "--platform", "-p", "--publish", "--pull", "--restart",
    "--runtime", "--security-opt", "--shm-size", "--stop-signal",
    "--stop-timeout", "--storage-opt", "--sysctl", "--tmpfs", "--ulimit",
    "-u", "--user", "--userns", "--uts", "-v", "--volume", "--volume-driver",
    "--volumes-from", "-w", "--workdir" }

\* the turn with "i += 2" written "i++": a flag's value is not skipped
FindTurnValueNotSkipped(args, i) ==
    LET arg == args[i + 1]
    IN  IF ~HasPrefix(arg, "-") THEN [ret |-> i, i |-> i]
        ELSE [ret |-> -1, i |-> i + 1]

\* one turn of the loop of findImagePosition with the cursor at i < len(args):
\* the value returned (ret >= 0) or the cursor of the next turn (ret = -1)
FindTurn(args, i) ==
    LET arg == args[i + 1]
    IN  IF ~HasPrefix(arg, "-") THEN [ret |-> i, i |-> i]
        ELSE IF Contains(arg, "=") THEN [ret |-> -1, i |-> i + 1]
        ELSE IF arg \in flagsWithValue THEN [ret |-> -1, i |-> i + 2]
        ELSE [ret |-> -1, i |-> i + 1]

RECURSIVE findImagePositionFrom(_, _)
findImagePositionFrom(args, i) ==
    IF ~(i < Len(args)) THEN -1
    ELSE LET t == FindTurn(args, i)
         IN  IF t.ret >= 0 THEN t.ret ELSE findImagePositionFrom(args, t.i)

findImagePosition(args) == findImagePositionFrom(args, 0)

(* ------------------------- extractUserEnvVars ------------------------- *)

\* the turn with strings.Split for strings.SplitN: the value ends at the
\* second "="
ExtractTurnSplitAll(args, i, result) ==
    LET arg     == args[i + 1]
        spaced  == arg = "-e" \/ arg = "--env"
        hasNext == i + 1 < Len(args)
        inlineS == ~spaced /\ HasPrefix(arg, "-e=")
        inlineL == ~spaced /\ ~inlineS /\ HasPrefix(arg, "--env=")
        envVal  == IF spaced THEN (IF hasNext THEN args[i + 2] ELSE "")
                   ELSE IF inlineS THEN TrimPrefix(arg, "-e=")
                   ELSE IF inlineL THEN TrimPrefix(arg, "--env=")
                   ELSE ""
        parts   == SplitN2(envVal, "=")
        key     == parts[1]
        value   == IF Len(parts) = 2 THEN SplitN2(parts[2], "=")[1] ELSE ""
    IN  [ i      |-> IF spaced /\ hasNext THEN i + 2 ELSE i + 1,
          result |-> IF envVal # "" THEN MapPut(result, key, value)
                     ELSE result ]

\* the turn keeping the first value of a key: a later setting of a key
\* already in result is dropped
ExtractTurnFirstWins(args, i, result) ==
    LET arg     == args[i + 1]
        spaced  == arg = "-e" \/ arg = "--env"
        hasNext == i + 1 < Len(args)
        inlineS == ~spaced /\ HasPrefix(arg, "-e=")
        inlineL == ~spaced /\ ~inlineS /\ HasPrefix(arg, "--env=")
        envVal  == IF spaced THEN (IF hasNext THEN args[i + 2] ELSE "")
                   ELSE IF inlineS THEN TrimPrefix(arg, "-e=")
                   ELSE IF inlineL THEN TrimPrefix(arg, "--env=")
                   ELSE ""
        parts   == SplitN2(envVal, "=")
        key     == parts[1]
        value   == IF Len(parts) = 2 THEN parts[2] ELSE ""
    IN  [ i      |-> IF spaced /\ hasNext THEN i + 2 ELSE i + 1,
          result |-> IF envVal # "" /\ key \notin DOMAIN result
                     THEN MapPut(result, key, value)
                     ELSE result ]

\* one turn of the loop of extractUserEnvVars with the cursor at i < len(args),
\* the i++ of the for statement included
ExtractTurn(args, i, result) ==
    LET arg     == args[i + 1]
        spaced  == arg = "-e" \/ arg = "--env"
        hasNext == i + 1 < Len(args)
        inlineS == ~spaced /\ HasPrefix(arg, "-e=")
        inlineL == ~spaced /\ ~inlineS /\ HasPrefix(arg, "--env=")
        envVal  == IF spaced THEN (IF hasNext THEN args[i + 2] ELSE "")
                   ELSE IF inlineS THEN TrimPrefix(arg, "-e=")
                   ELSE IF inlineL THEN TrimPrefix(arg, "--env=")
                   ELSE ""
        parts   == SplitN2(envVal, "=")
        key     == parts[1]
        value   == IF Len(parts) = 2 THEN parts[2] ELSE ""
    IN  [ i      |-> IF spaced /\ hasNext THEN i + 2 ELSE i + 1,
          result |-> IF envVal # "" THEN MapPut(result, key, value)
                     ELSE result ]

\* the turn of findImagePosition at i reads args[i] alone
FindReads(args, i) == {i}

\* the turn of extractUserEnvVars with args[i+1] read whether or not it is
\* there
ExtractReadsUnguarded(args, i) ==
    {i} \cup (IF args[i + 1] = "-e" \/ args[i + 1] = "--env"
              THEN {i + 1} ELSE {})

\* the indices of args the turn of extractUserEnvVars at i reads: args[i],
\* and args[i+1] after "-e" or "--env" when i+1 < len(args)
ExtractReads(args, i) ==
    {i} \cup (IF (args[i + 1] = "-e" \/ args[i + 1] = "--env")
                  /\ i + 1 < Len(args)
              THEN {i + 1} ELSE {})

RECURSIVE extractUserEnvVarsFrom(_, _, _)
extractUserEnvVarsFrom(args, i, result) ==
    IF ~(i < Len(args)) THEN result
    ELSE LET t == ExtractTurn(args, i, result)
         IN  extractUserEnvVarsFrom(args, t.i, t.result)

extractUserEnvVars(args) == extractUserEnvVarsFrom(args, 0, EmptyMap)

(* --------------------------- input universes -------------------------- *)

\* opts.DockerCommand: "compose" and two commands of the default branch
Commands == {"run", "exec", "compose"}

\* tokens of DockerArgs: the environment flag in spaced and inline form, a
\* KEY=VALUE, a boolean flag, a value-consuming flag, and two positional
\* words ("run" is also compose's sub-subcommand)
Tokens == {"-e", "--env=A=u", "A=u", "-d", "--name", "img", "run"}

\* tokens of the sequences the two scanners are run on by themselves
ScanTokens ==
    {"-e", "--env", "-e=A=1", "--env=A=1", "A=1", "-e=A", "--env=A", "A",
     "-e=A=1=2", "--env=A=1=2", "A=1=2", "-p", "-d", "--name=x", "img"}

ArgLists(toks, n) == UNION { [1 .. m -> toks] : m \in 0 .. n }

\* what env.Parse can return: a map from some secret keys to vault values
SecretKeys == {"A", "B"}
SecretVals == {"v", "w=x"}
SecretMaps == UNION { [S -> SecretVals] : S \in SUBSET SecretKeys }

\* environment names of the vault
EnvNames == {"development", "production"}

\* the name os.CreateTemp("", "keyway-env-*.env") picks
TempNames == {"/tmp/keyway-env-1.env"}

\* a nil map[string]string, as against an allocated one
NilEnv == [isNil |-> TRUE, vars |-> EmptyMap]

\* the error values of the collaborators
ExitErrors == {"exit status 1"}

(* ------------------------------- state -------------------------------- *)

VARIABLES
    opts,       \* DockerOptions
    pc,         \* where the invocation stands
    envName,    \* runDockerWithDeps: envName
    secrets,    \* runDockerWithDeps: secrets (env.Parse of the vault content)
    uiErrors,   \* the messages given to deps.UI.Error, in order
    ret,        \* the error returned: "" while running, "nil", or a message
    calls,      \* the calls of deps.CmdRunner.RunCommand, in order
    log,        \* the collaborators called so far and how each answered
    fs,         \* the temporary directory: file name -> content
    envFile,    \* runDockerCompose: envFile.Name() once created, else ""
    pending,    \* runDockerCompose: the secrets its write loop has yet to visit
    scanArgs,   \* the scanners on their own: args
    scanPc,     \* ... which scanner runs
    fi,         \* findImagePosition: i
    fret,       \* findImagePosition: the value returned (-2 before it returns)
    fseen,      \* findImagePosition: the cursors of the turns taken, in order
    xi,         \* extractUserEnvVars: i
    xresult,    \* extractUserEnvVars: result
    reads       \* the indices of args the two scanners have read

pipeVars   == << opts, pc, envName, secrets, uiErrors, ret, calls, log >>
fileVars   == << fs, envFile, pending >>
scanVars   == << scanArgs, scanPc, fi, fret, fseen, xi, xresult, reads >>
vars       == << opts, pc, envName, secrets, uiErrors, ret, calls, log,
                 fs, envFile, pending,
                 scanArgs, scanPc, fi, fret, fseen, xi, xresult, reads >>

NoOpts == [DockerCommand |-> "", DockerArgs |-> << >>,
           EnvName |-> "development", EnvFlagSet |-> FALSE]

ScanIdle ==
    /\ scanArgs = << >>
    /\ scanPc = "idle"
    /\ fi = 0
    /\ fret = -2
    /\ fseen = << >>
    /\ xi = 0
    /\ xresult = EmptyMap
    /\ reads = {}

(* ------------------------ runDockerWithDeps --------------------------- *)

FilesIdle == fs = EmptyMap /\ envFile = "" /\ pending = {}

\* before the command runs
Init ==
    /\ opts = NoOpts
    /\ pc = "cmd"
    /\ envName = ""
    /\ secrets = EmptyMap
    /\ uiErrors = << >>
    /\ ret = ""
    /\ calls = << >>
    /\ log = << >>
    /\ FilesIdle
    /\ ScanIdle

\* an entry of log: a collaborator's method and whether it answered without
\* an error (for RunCommand: that it was entered)
Called(method, ok) == [call |-> method, ok |-> ok]

\* return err (the deferred calls, if any, have run)
Return(e) == ret' = e /\ pc' = "done"

\* runDockerCmd with no positional argument
RunDockerCmdNoSubcommand ==
    /\ pc = "cmd"
    /\ Return("docker subcommand required (e.g., 'run' or 'compose')")
    /\ UNCHANGED << opts, envName, secrets, uiErrors, calls, log >>
    /\ UNCHANGED fileVars
    /\ UNCHANGED scanVars

\* runDockerCmd: opts from the command line, then runDockerWithDeps
RunDockerCmd ==
    /\ pc = "cmd"
    /\ \E c \in Commands, a \in ArgLists(Tokens, MaxPipeArgs),
          changed \in BOOLEAN, name \in EnvNames :
          /\ (~changed => name = "development")
          /\ opts' = [DockerCommand |-> c, DockerArgs |-> a,
                      EnvName |-> name, EnvFlagSet |-> changed]
    /\ pc' = "detect"
    /\ UNCHANGED << envName, secrets, uiErrors, ret, calls, log >>
    /\ UNCHANGED fileVars
    /\ UNCHANGED scanVars

\* Detect Repo with the "return err" left out: the error is shown and the
\* pipeline goes on
DetectRepoGoesOn ==
    /\ pc = "detect"
    /\ \/ /\ log' = Append(log, Called("Git.DetectRepo", TRUE))
          /\ UNCHANGED uiErrors
       \/ /\ log' = Append(log, Called("Git.DetectRepo", FALSE))
          /\ uiErrors' = Append(uiErrors,
                               "Not in a git repository with GitHub remote")
    /\ pc' = "login"
    /\ UNCHANGED << opts, envName, secrets, ret, calls >>
    /\ UNCHANGED fileVars
    /\ UNCHANGED scanVars

\* 1. Detect Repo
DetectRepo ==
    /\ pc = "detect"
    /\ \/ /\ log' = Append(log, Called("Git.DetectRepo", TRUE))
          /\ pc' = "login"
          /\ UNCHANGED << uiErrors, ret >>
       \/ /\ log' = Append(log, Called("Git.DetectRepo", FALSE))
          /\ uiErrors' = Append(uiErrors,
                               "Not in a git repository with GitHub remote")
          /\ Return("not a git repo")
    /\ UNCHANGED << opts, envName, secrets, calls >>
    /\ UNCHANGED fileVars
    /\ UNCHANGED scanVars

\* 2. Ensure Login
EnsureLogin ==
    /\ pc = "login"
    /\ \/ /\ log' = Append(log, Called("Auth.EnsureLogin", TRUE))
          /\ pc' = "environment"
          /\ UNCHANGED << uiErrors, ret >>
       \/ /\ log' = Append(log, Called("Auth.EnsureLogin", FALSE))
          /\ uiErrors' = Append(uiErrors, "not logged in")
          /\ Return("not logged in")
    /\ UNCHANGED << opts, envName, secrets, calls >>
    /\ UNCHANGED fileVars
    /\ UNCHANGED scanVars

\* what client.GetVaultEnvironments can answer (<< >>: an error or no names)
VaultEnvLists ==
    { << >>, << "production" >>, << "production", "development" >>,
      << "development", "production" >> }

\* the default index found and the default moved to the front
DefaultFirst(vaultEnvs) ==
    LET hits == { i \in 0 .. Len(vaultEnvs) - 1 :
                      vaultEnvs[i + 1] = "development" }
        defaultIdx == IF hits = {} THEN 0
                      ELSE CHOOSE i \in hits : \A j \in hits : i <= j
    IN  IF defaultIdx > 0
        THEN [vaultEnvs EXCEPT ![1] = vaultEnvs[defaultIdx + 1],
                               ![defaultIdx + 1] = vaultEnvs[1]]
        ELSE vaultEnvs

\* 3, 4. Setup Client, Determine Environment: the flag's value
KeepEnvironment ==
    /\ pc = "environment"
    /\ \E interactive \in BOOLEAN : ~(~opts.EnvFlagSet /\ interactive)
    /\ envName' = opts.EnvName
    /\ pc' = "fetch"
    /\ UNCHANGED << opts, secrets, uiErrors, ret, calls, log >>
    /\ UNCHANGED fileVars
    /\ UNCHANGED scanVars

\* 3, 4. Setup Client, Determine Environment: the user selects one
SelectEnvironment ==
    /\ pc = "environment"
    /\ ~opts.EnvFlagSet
    /\ \E answer \in VaultEnvLists :
          LET vaultEnvs == DefaultFirst(
                  IF Len(answer) = 0
                  THEN << "development", "staging", "production" >>
                  ELSE answer)
          IN  \/ \E selected \in { vaultEnvs[i] : i \in 1 .. Len(vaultEnvs) } :
                    /\ log' = Append(log, Called("UI.Select", TRUE))
                    /\ envName' = selected
                    /\ pc' = "fetch"
                    /\ UNCHANGED ret
              \/ /\ log' = Append(log, Called("UI.Select", FALSE))
                 /\ Return("select: interrupted")
                 /\ UNCHANGED envName
    /\ UNCHANGED << opts, secrets, uiErrors, calls >>
    /\ UNCHANGED fileVars
    /\ UNCHANGED scanVars

\* 5, 6. Fetch Secrets, Parse Secrets
FetchSecrets ==
    /\ pc = "fetch"
    /\ \/ \E parsed \in SecretMaps :
             /\ log' = Append(log, Called("API.PullSecrets", TRUE))
             /\ secrets' = parsed
             /\ pc' = "exec"
             /\ UNCHANGED << uiErrors, ret >>
       \/ \E e \in {"404: Vault not found", "connection refused"} :
             /\ log' = Append(log, Called("API.PullSecrets", FALSE))
             /\ uiErrors' = Append(uiErrors, e)
             /\ Return(e)
             /\ UNCHANGED secrets
    /\ UNCHANGED << opts, envName, calls >>
    /\ UNCHANGED fileVars
    /\ UNCHANGED scanVars

(* ------------------- runDockerRun, runDockerCompose ------------------- *)

\* the orders in which "for k, v := range m" can visit the keys S of a map
Orders(S) ==
    { o \in [1 .. Cardinality(S) -> S] :
          \A i, j \in 1 .. Cardinality(S) : i # j => o[i] # o[j] }

\* append(newArgs, "-e", fmt.Sprintf("%s=%s", k, v)) for the keys of order
EnvFlags(m, order) ==
    [i \in 1 .. 2 * Len(order) |->
        IF i % 2 = 1 THEN "-e"
        ELSE SprintfKV(order[i \div 2], m[order[i \div 2]])]

\* runDockerRun with the secrets put one token too far, past the image
RunDockerRunArgsPastImage(o, secr, order) ==
    LET args        == o.DockerArgs
        userEnvVars == extractUserEnvVars(args)
        imagePos    == findImagePosition(args)
        notUserSet(k) == k \notin DOMAIN userEnvVars
        injected    == EnvFlags(secr, SelectSeq(order, notUserSet))
    IN  << o.DockerCommand >> \o
        ( IF imagePos >= 0
          THEN SubSeq(args, 1, imagePos + 1) \o injected
                   \o SubSeq(args, imagePos + 2, Len(args))
          ELSE injected \o args )

\* runDockerRun without the userSet test: every secret is injected
RunDockerRunArgsNoPrecedence(o, secr, order) ==
    LET args     == o.DockerArgs
        imagePos == findImagePosition(args)
        injected == EnvFlags(secr, order)
    IN  << o.DockerCommand >> \o
        ( IF imagePos >= 0
          THEN SubSeq(args, 1, imagePos) \o injected
                   \o SubSeq(args, imagePos + 1, Len(args))
          ELSE injected \o args )

\* runDockerRun with the fallback putting the secrets after args
RunDockerRunArgsFallbackLast(o, secr, order) ==
    LET args        == o.DockerArgs
        userEnvVars == extractUserEnvVars(args)
        imagePos    == findImagePosition(args)
        notUserSet(k) == k \notin DOMAIN userEnvVars
        injected    == EnvFlags(secr, SelectSeq(order, notUserSet))
    IN  << o.DockerCommand >> \o
        ( IF imagePos >= 0
          THEN SubSeq(args, 1, imagePos) \o injected
                   \o SubSeq(args, imagePos + 1, Len(args))
          ELSE args \o injected )

\* runDockerRun: newArgs, the range over secrets taking the keys in order
RunDockerRunArgs(o, secr, order) ==
    LET args        == o.DockerArgs
        userEnvVars == extractUserEnvVars(args)
        imagePos    == findImagePosition(args)
        notUserSet(k) == k \notin DOMAIN userEnvVars
        injected    == EnvFlags(secr, SelectSeq(order, notUserSet))
    IN  << o.DockerCommand >> \o
        ( IF imagePos >= 0
          THEN SubSeq(args, 1, imagePos) \o injected
                   \o SubSeq(args, imagePos + 1, Len(args))
          ELSE injected \o args )

\* compose "run" with the userSet test of runDockerRun: a key the caller
\* set is left out
ComposeRunArgsWithPrecedence(o, secr, order) ==
    LET notUserSet(k) == k \notin DOMAIN extractUserEnvVars(o.DockerArgs)
    IN  << "compose", "run" >> \o EnvFlags(secr, SelectSeq(order, notUserSet))
            \o ( IF Len(o.DockerArgs) > 1
                 THEN SubSeq(o.DockerArgs, 2, Len(o.DockerArgs))
                 ELSE << >> )

\* runDockerCompose, "run" subcommand: newArgs
ComposeRunArgs(o, secr, order) ==
    << "compose", "run" >> \o EnvFlags(secr, order) \o
    ( IF Len(o.DockerArgs) > 1
      THEN SubSeq(o.DockerArgs, 2, Len(o.DockerArgs))
      ELSE << >> )

\* runDockerCompose, other subcommands: args once the env file is written
ComposeEnvFileArgs(o, name) ==
    << "compose", "--env-file", name >> \o o.DockerArgs

\* runDockerCompose: args as first built
ComposeArgs(o) == << "compose" >> \o o.DockerArgs

\* the secrets handed to the runner as the child's environment
RunnerEnvSecrets == [isNil |-> FALSE, vars |-> secrets]

\* the environment every RunCommand of this file is given
RunnerEnv == NilEnv

\* deps.CmdRunner.RunCommand("docker", args, nil) is entered
RunCommand(args) ==
    /\ calls' = Append(calls, [name |-> "docker", args |-> args,
                               env |-> RunnerEnv])
    /\ log' = Append(log, Called("CmdRunner.RunCommand", TRUE))
    /\ pc' = "running"

IsComposeRun(o) == Len(o.DockerArgs) > 0 /\ o.DockerArgs[1] = "run"

\* runDockerRun up to its call of the runner
RunDockerRun ==
    /\ pc = "exec"
    /\ opts.DockerCommand # "compose"
    /\ \E order \in Orders(DOMAIN secrets) :
          RunCommand(RunDockerRunArgs(opts, secrets, order))
    /\ UNCHANGED << opts, envName, secrets, uiErrors, ret >>
    /\ UNCHANGED fileVars
    /\ UNCHANGED scanVars

\* runDockerCompose, "run" subcommand, up to its call of the runner
ComposeRun ==
    /\ pc = "exec"
    /\ opts.DockerCommand = "compose"
    /\ IsComposeRun(opts)
    /\ \E order \in Orders(DOMAIN secrets) :
          RunCommand(ComposeRunArgs(opts, secrets, order))
    /\ UNCHANGED << opts, envName, secrets, uiErrors, ret >>
    /\ UNCHANGED fileVars
    /\ UNCHANGED scanVars

\* runDockerCompose, other subcommands, no secret: straight to the runner
ComposePlain ==
    /\ pc = "exec"
    /\ opts.DockerCommand = "compose"
    /\ ~IsComposeRun(opts)
    /\ ~(Cardinality(DOMAIN secrets) > 0)
    /\ RunCommand(ComposeArgs(opts))
    /\ UNCHANGED << opts, envName, secrets, uiErrors, ret >>
    /\ UNCHANGED fileVars
    /\ UNCHANGED scanVars

\* os.CreateTemp succeeds: a new, empty file; os.Remove of it is deferred
CreateTemp ==
    /\ pc = "exec"
    /\ opts.DockerCommand = "compose"
    /\ ~IsComposeRun(opts)
    /\ Cardinality(DOMAIN secrets) > 0
    /\ \E name \in TempNames \ DOMAIN fs :
          /\ fs' = MapPut(fs, name, "")
          /\ envFile' = name
    /\ pending' = DOMAIN secrets
    /\ pc' = "write"
    /\ UNCHANGED << opts, envName, secrets, uiErrors, ret, calls, log >>
    /\ UNCHANGED scanVars

\* os.CreateTemp fails: the wrapped error is returned
CreateTempFails ==
    /\ pc = "exec"
    /\ opts.DockerCommand = "compose"
    /\ ~IsComposeRun(opts)
    /\ Cardinality(DOMAIN secrets) > 0
    /\ Return("failed to create temp env file: no space left on device")
    /\ UNCHANGED << opts, envName, secrets, uiErrors, calls, log >>
    /\ UNCHANGED fileVars
    /\ UNCHANGED scanVars

\* one turn of the write loop: fmt.Fprintf(envFile, "%s=%s\n", k, v), whose
\* result is discarded; a write that fails leaves the file as it was
WriteSecret ==
    /\ pc = "write"
    /\ \E k \in pending :
          /\ pending' = pending \ {k}
          /\ \/ fs' = [fs EXCEPT ![envFile] =
                           @ \o SprintfKV(k, secrets[k]) \o "\n"]
             \/ UNCHANGED fs
    /\ UNCHANGED << envFile >>
    /\ UNCHANGED pipeVars
    /\ UNCHANGED scanVars

\* the loop is over: envFile.Close(), args rebuilt, the runner called
CloseAndRun ==
    /\ pc = "write"
    /\ pending = {}
    /\ RunCommand(ComposeEnvFileArgs(opts, envFile))
    /\ UNCHANGED << opts, envName, secrets, uiErrors, ret >>
    /\ UNCHANGED fileVars
    /\ UNCHANGED scanVars

\* os.Remove(name)
Remove(files, name) == [f \in (DOMAIN files) \ {name} |-> files[f]]

\* the runner returns, the deferred os.Remove runs, its error is returned
RunCommandReturns ==
    /\ pc = "running"
    /\ \E e \in {"nil"} \cup ExitErrors : Return(e)
    /\ fs' = IF envFile # "" THEN Remove(fs, envFile) ELSE fs
    /\ UNCHANGED << envFile, pending >>
    /\ UNCHANGED << opts, envName, secrets, uiErrors, calls, log >>
    /\ UNCHANGED scanVars

(* --------------------------- specifications --------------------------- *)

EngineNext ==
    \/ RunDockerRun
    \/ ComposeRun
    \/ ComposePlain
    \/ CreateTemp
    \/ CreateTempFails
    \/ WriteSecret
    \/ CloseAndRun
    \/ RunCommandReturns

Next ==
    \/ RunDockerCmdNoSubcommand
    \/ RunDockerCmd
    \/ DetectRepo
    \/ EnsureLogin
    \/ KeepEnvironment
    \/ SelectEnvironment
    \/ FetchSecrets
    \/ EngineNext

\* the command, from its command line to its return
Spec == Init /\ [][Next]_vars

\* step 7 of runDockerWithDeps entered: the three collaborators have
\* answered, secrets is what env.Parse gave
InitEngine ==
    /\ opts \in [DockerCommand : Commands,
                 DockerArgs : ArgLists(Tokens, MaxArgs),
                 EnvName : {"development"}, EnvFlagSet : {TRUE}]
    /\ pc = "exec"
    /\ envName = "development"
    /\ secrets \in SecretMaps
    /\ uiErrors = << >>
    /\ ret = ""
    /\ calls = << >>
    /\ log = << Called("Git.DetectRepo", TRUE), Called("Auth.EnsureLogin", TRUE),
                Called("API.PullSecrets", TRUE) >>
    /\ FilesIdle
    /\ ScanIdle

\* runDockerRun and runDockerCompose on their own
SpecEngine == InitEngine /\ [][EngineNext]_vars

(* ---------------------- the scanners on their own --------------------- *)

PipeIdle ==
    /\ opts = NoOpts
    /\ pc = "idle"
    /\ envName = ""
    /\ secrets = EmptyMap
    /\ uiErrors = << >>
    /\ ret = ""
    /\ calls = << >>
    /\ log = << >>

\* extractUserEnvVars(args), then findImagePosition(args), as runDockerRun
\* calls them, on any token sequence
InitScan ==
    /\ scanArgs \in ArgLists(ScanTokens, MaxScanArgs)
    /\ scanPc = "extract"
    /\ fi = 0
    /\ fret = -2
    /\ fseen = << >>
    /\ xi = 0
    /\ xresult = EmptyMap
    /\ reads = {}
    /\ PipeIdle
    /\ FilesIdle

\* extractUserEnvVars: one turn of its loop
ExtractLoop ==
    /\ scanPc = "extract"
    /\ xi < Len(scanArgs)
    /\ LET t == ExtractTurn(scanArgs, xi, xresult)
       IN  xi' = t.i /\ xresult' = t.result
    /\ reads' = reads \cup ExtractReads(scanArgs, xi)
    /\ UNCHANGED << scanArgs, scanPc, fi, fret, fseen >>
    /\ UNCHANGED pipeVars
    /\ UNCHANGED fileVars

\* extractUserEnvVars: return result
ExtractReturn ==
    /\ scanPc = "extract"
    /\ ~(xi < Len(scanArgs))
    /\ scanPc' = "find"
    /\ UNCHANGED << scanArgs, fi, fret, fseen, xi, xresult, reads >>
    /\ UNCHANGED pipeVars
    /\ UNCHANGED fileVars

\* findImagePosition: one turn of its loop
FindLoop ==
    /\ scanPc = "find"
    /\ fi < Len(scanArgs)
    /\ LET t == FindTurn(scanArgs, fi)
       IN  /\ fi' = t.i
           /\ fret' = IF t.ret >= 0 THEN t.ret ELSE fret
           /\ scanPc' = IF t.ret >= 0 THEN "done" ELSE scanPc
    /\ fseen' = Append(fseen, fi)
    /\ reads' = reads \cup FindReads(scanArgs, fi)
    /\ UNCHANGED << scanArgs, xi, xresult >>
    /\ UNCHANGED pipeVars
    /\ UNCHANGED fileVars

\* findImagePosition: return -1
FindReturnAbsent ==
    /\ scanPc = "find"
    /\ ~(fi < Len(scanArgs))
    /\ fret' = -1
    /\ scanPc' = "done"
    /\ UNCHANGED << scanArgs, fi, fseen, xi, xresult, reads >>
    /\ UNCHANGED pipeVars
    /\ UNCHANGED fileVars

ScanNext ==
    \/ ExtractLoop
    \/ ExtractReturn
    \/ FindLoop
    \/ FindReturnAbsent

SpecScan == InitScan /\ [][ScanNext]_vars

(* ======================= the claims, C1 .. C15 ======================== *)

\* the part of s before its first "=" (all of s when it has none)
KeyPart(s) ==
    LET k == CHOOSE n \in 0 .. Len(s) :
                 /\ n = Len(s) \/ SubSeq(s, n + 1, n + 1) = "="
                 /\ \A j \in 1 .. n : SubSeq(s, j, j) # "="
    IN  SubSeq(s, 1, k)

\* everything after the first "=" of s ("" when it has none)
ValuePart(s) ==
    IF Len(KeyPart(s)) = Len(s) THEN ""
    ELSE SubSeq(s, Len(KeyPart(s)) + 2, Len(s))

\* "-e", "K=V" for the keys of order, in order
RECURSIVE PairsOf(_, _)
PairsOf(m, order) ==
    IF order = << >> THEN << >>
    ELSE << "-e", Head(order) \o "=" \o m[Head(order)] >>
             \o PairsOf(m, Tail(order))

\* runDockerRun has called the runner
RunCall == calls # << >> /\ opts.DockerCommand # "compose"

\* the vector the runner was given
Vector == calls[1].args

\* the tokens of Vector that are not the subcommand nor DockerArgs: those
\* that stand where runDockerRun injects
Injected ==
    LET args == opts.DockerArgs
        p    == findImagePosition(args)
        at   == IF p >= 0 THEN p ELSE 0
    IN  SubSeq(Vector, at + 2, at + 1 + (Len(Vector) - 1 - Len(args)))

\* Vector with the injected tokens taken out
NotInjected ==
    LET args == opts.DockerArgs
        p    == findImagePosition(args)
        at   == IF p >= 0 THEN p ELSE 0
    IN  SubSeq(Vector, 1, at + 1)
            \o SubSeq(Vector, at + 2 + Len(Injected), Len(Vector))

\* the injected tokens are "-e", "K=V" pairs
InjectedArePairs ==
    /\ Len(Injected) % 2 = 0
    /\ \A i \in 1 .. Len(Injected) : i % 2 = 1 => Injected[i] = "-e"

\* the places of Injected holding a pair for key k
InjectedFor(k) ==
    { i \in 1 .. Len(Injected) : i % 2 = 0 /\ KeyPart(Injected[i]) = k }

\* how many environment settings of key k the token sequence v holds, in any
\* of the four forms
SettingsOf(v, k) ==
    Cardinality({ i \in 1 .. Len(v) :
        \/ v[i] \in {"-e", "--env"} /\ i < Len(v) /\ KeyPart(v[i + 1]) = k
        \/ HasPrefix(v[i], "-e=") /\ KeyPart(TrimPrefix(v[i], "-e=")) = k
        \/ HasPrefix(v[i], "--env=")
               /\ KeyPart(TrimPrefix(v[i], "--env=")) = k })

\* C1: in run mode with an image at p, the runner's vector is the subcommand,
\* args[0:p], one "-e","KEY=VALUE" pair for each injected secret, then
\* args[p:]: the pairs stand before the image and after the caller's options,
\* and the image and what follows it are as the caller wrote them.
C1_InjectedBeforeImage ==
    (RunCall /\ findImagePosition(opts.DockerArgs) >= 0) =>
        LET args == opts.DockerArgs
            p    == findImagePosition(args)
        IN  \E S \in SUBSET (DOMAIN secrets) : \E order \in Orders(S) :
                Vector = << opts.DockerCommand >> \o SubSeq(args, 1, p)
                             \o PairsOf(secrets, order)
                             \o SubSeq(args, p + 1, Len(args))

C1_Witness ==
    /\ RunCall
    /\ opts.DockerArgs = << "-d", "img", "run" >>
    /\ secrets = [A |-> "v", B |-> "w=x"]
    /\ Vector = << "exec", "-d", "-e", "B=w=x", "-e", "A=v", "img", "run" >>

\* C2 as claimed: the injected keys are the secret keys the caller did not
\* set, each injected once with the vault value, and for a secret key the
\* caller did set the final vector holds exactly one setting, the caller's.
C2_ExactlyOneSettingOfUserKey ==
    RunCall =>
        LET user == DOMAIN extractUserEnvVars(opts.DockerArgs)
        IN  /\ InjectedArePairs
            /\ { KeyPart(Injected[i]) : i \in { j \in 1 .. Len(Injected) :
                                                  j % 2 = 0 } }
                   = (DOMAIN secrets) \ user
            /\ \A k \in (DOMAIN secrets) \ user :
                   /\ Cardinality(InjectedFor(k)) = 1
                   /\ \A i \in InjectedFor(k) :
                          Injected[i] = k \o "=" \o secrets[k]
            /\ \A k \in (DOMAIN secrets) \cap user :
                   /\ InjectedFor(k) = {}
                   /\ SettingsOf(Vector, k) = 1

\* C2, amended: the injected keys are the secret keys the caller did not set,
\* each injected once with the vault value; no pair is injected for a key the
\* caller set, and the caller's own tokens all stay, in order, so the settings
\* of that key in the final vector are the caller's, however many were written.
C2_UserKeysNeverInjected ==
    RunCall =>
        LET user == DOMAIN extractUserEnvVars(opts.DockerArgs)
        IN  /\ InjectedArePairs
            /\ { KeyPart(Injected[i]) : i \in { j \in 1 .. Len(Injected) :
                                                  j % 2 = 0 } }
                   = (DOMAIN secrets) \ user
            /\ \A k \in (DOMAIN secrets) \ user :
                   /\ Cardinality(InjectedFor(k)) = 1
                   /\ \A i \in InjectedFor(k) :
                          Injected[i] = k \o "=" \o secrets[k]
            /\ \A k \in user : InjectedFor(k) = {}
            /\ NotInjected = << opts.DockerCommand >> \o opts.DockerArgs

C2_Witness ==
    /\ RunCall
    /\ opts.DockerArgs = << "-e", "A=u", "img" >>
    /\ secrets = [A |-> "v", B |-> "w=x"]
    /\ Vector = << "run", "-e", "A=u", "-e", "B=w=x", "img" >>

\* the lines of a file's content, the newline that ends each left out
RECURSIVE LinesOf(_)
LinesOf(content) ==
    IF content = "" THEN << >>
    ELSE LET at == Index(content, "\n")
         IN  IF at < 0 THEN << content >>
             ELSE << SubSeq(content, 1, at) >>
                      \o LinesOf(SubSeq(content, at + 2, Len(content)))

\* runDockerCompose is on its env-file path (first token not "run")
ComposeOther == opts.DockerCommand = "compose" /\ ~IsComposeRun(opts)

\* the file named name holds one KEY=VALUE line for each secret, no other
HoldsEverySecret(name) ==
    /\ name \in DOMAIN fs
    /\ Len(LinesOf(fs[name])) = Cardinality(DOMAIN secrets)
    /\ { LinesOf(fs[name])[i] : i \in 1 .. Len(LinesOf(fs[name])) }
           = { k \o "=" \o secrets[k] : k \in DOMAIN secrets }

\* C3 as claimed: on the env-file path, while the runner is in its call, a
\* temporary file exists exactly when there are secrets; with secrets the
\* vector is "compose", "--env-file", path, then the caller's arguments, and
\* the file holds one KEY=VALUE line per secret; without, the vector is
\* "compose" and the caller's arguments and there is no file.
C3_EnvFileIffSecrets ==
    (pc = "running" /\ ComposeOther) =>
        IF DOMAIN secrets # {}
        THEN /\ Vector = << "compose", "--env-file", envFile >>
                             \o opts.DockerArgs
             /\ DOMAIN fs = {envFile}
             /\ HoldsEverySecret(envFile)
        ELSE /\ Vector = << "compose" >> \o opts.DockerArgs
             /\ envFile = ""
             /\ fs = EmptyMap

C5_ComposeSecretsInEnvironment ==
    (calls # << >> /\ ComposeOther /\ DOMAIN secrets # {}) =>
        /\ Vector = << "compose" >> \o opts.DockerArgs
        /\ ~calls[1].env.isNil
        /\ \A k \in DOMAIN secrets :
               /\ k \in DOMAIN calls[1].env.vars
               /\ calls[1].env.vars[k] = secrets[k]

\* C6: the temporary env file exists, with every secret written, when the
\* process is started and for as long as it runs, and no file is left once
\* runDockerCompose has returned.
C6_EnvFileLifetime ==
    /\ (pc = "running" /\ ComposeOther /\ DOMAIN secrets # {}) =>
           HoldsEverySecret(envFile)
    /\ pc = "done" => fs = EmptyMap

\* C7: when os.CreateTemp fails runDockerCompose returns the wrapped error and
\* the runner is not called; when a write fails the runner is not called
\* either: it is never in its call with an env file that lacks a secret.
C7_NoLaunchWithoutSecrets ==
    /\ (pc = "done" /\ ComposeOther /\ DOMAIN secrets # {} /\ envFile = "") =>
           /\ HasPrefix(ret, "failed to create temp env file: ")
           /\ calls = << >>
    /\ (ComposeOther /\ envFile \in DOMAIN fs /\ pending = {}
            /\ ~HoldsEverySecret(envFile)) =>
           calls = << >>

\* the collaborator's method answered with an error
Failed(method) == \E i \in 1 .. Len(log) : log[i] = Called(method, FALSE)

\* C8: when repository detection, login or the secret fetch fails,
\* runDockerWithDeps has returned an error, UI.Error was called, and the
\* runner is not called; the runner is called only after the three have
\* succeeded, in that order.
C8_NothingLaunchedAfterFailure ==
    /\ \A m \in {"Git.DetectRepo", "Auth.EnsureLogin", "API.PullSecrets"} :
           Failed(m) =>
               /\ pc = "done"
               /\ ret \notin {"", "nil"}
               /\ Len(uiErrors) >= 1
               /\ calls = << >>
    /\ calls # << >> =>
           \E i, j, k, r \in 1 .. Len(log) :
               /\ i < j /\ j < k /\ k < r
               /\ log[i] = Called("Git.DetectRepo", TRUE)
               /\ log[j] = Called("Auth.EnsureLogin", TRUE)
               /\ log[k] = Called("API.PullSecrets", TRUE)
               /\ log[r] = Called("CmdRunner.RunCommand", TRUE)

C8_Witness ==
    /\ Failed("API.PullSecrets")
    /\ log = << Called("Git.DetectRepo", TRUE), Called("Auth.EnsureLogin", TRUE),
                Called("API.PullSecrets", FALSE) >>
    /\ pc = "done"
    /\ ret = "404: Vault not found"
    /\ uiErrors = << "404: Vault not found" >>
    /\ calls = << >>

\* C9: when findImagePosition returns p other than -1, args[p] does not
\* start with "-" and every token before p starts with "-" or follows a flag
\* of the table; a turn at a flag of the table skips that flag and the next
\* token together, whatever that token is; a sequence whose first token does
\* not start with "-" gives 0.
C9_ImageIsFirstPositional ==
    /\ scanPc = "done" =>
           /\ fret # -1 =>
                  /\ fret \in 0 .. Len(scanArgs) - 1
                  /\ ~HasPrefix(scanArgs[fret + 1], "-")
                  /\ \A j \in 0 .. fret - 1 :
                         \/ HasPrefix(scanArgs[j + 1], "-")
                         \/ j >= 1 /\ scanArgs[j] \in flagsWithValue
                                   /\ ~Contains(scanArgs[j], "=")
           /\ (Len(scanArgs) > 0 /\ ~HasPrefix(scanArgs[1], "-")) => fret = 0
    /\ \A n \in 1 .. Len(fseen) :
           scanArgs[fseen[n] + 1] \in flagsWithValue =>
               /\ \A m \in 1 .. Len(fseen) : fseen[m] # fseen[n] + 1
               /\ fret # fseen[n] + 1
               /\ scanPc = "find" => fi = fseen[n] + 2 \/ n < Len(fseen)

C9_Witness ==
    /\ scanPc = "done"
    /\ scanArgs = << "-p", "A=1", "img" >>
    /\ fseen = << 0, 2 >>
    /\ fret = 2

\* the forms in which args can set the environment entry s and nothing else
FourForms(s) ==
    { << "-e", s >>, << "--env", s >>, << "-e=" \o s >>, << "--env=" \o s >> }

\* the token is an environment flag
IsEnvFlag(tok) ==
    tok \in {"-e", "--env"} \/ HasPrefix(tok, "-e=") \/ HasPrefix(tok, "--env=")

\* C10: extractUserEnvVars gives the same one-entry mapping for "-e" s,
\* "--env" s, "-e="s and "--env="s, s not empty: the part of s before its
\* first "=" mapped to everything after it, "" when s has no "="; a sequence
\* without an environment flag gives no entry.
C10_FourFormsOneEntry ==
    scanPc \in {"find", "done"} =>
        /\ \A s \in ScanTokens :
               scanArgs \in FourForms(s) =>
                   /\ DOMAIN xresult = {KeyPart(s)}
                   /\ xresult[KeyPart(s)] = ValuePart(s)
        /\ (\A n \in 1 .. Len(scanArgs) : ~IsEnvFlag(scanArgs[n])) =>
               DOMAIN xresult = {}

C10_Witness ==
    /\ scanPc = "done"
    /\ scanArgs = << "--env=A=1=2" >>
    /\ xresult = [A |-> "1=2"]

\* C11: compose with first token "run": the runner's vector is "compose",
\* "run", one "-e","KEY=VALUE" pair for every secret, then DockerArgs[1:];
\* no temporary file is made, and a key the caller set is injected all the
\* same.
C11_ComposeRunInjectsEverySecret ==
    (calls # << >> /\ opts.DockerCommand = "compose" /\ IsComposeRun(opts)) =>
        /\ \E order \in Orders(DOMAIN secrets) :
               Vector = << "compose", "run" >> \o PairsOf(secrets, order)
                            \o SubSeq(opts.DockerArgs, 2, Len(opts.DockerArgs))
        /\ fs = EmptyMap
        /\ envFile = ""

C11_Witness ==
    /\ pc = "done"
    /\ opts.DockerCommand = "compose"
    /\ opts.DockerArgs = << "run", "-e", "A=u" >>
    /\ secrets = [A |-> "v"]
    /\ Vector = << "compose", "run", "-e", "A=v", "-e", "A=u" >>
    /\ fs = EmptyMap

RECURSIVE OnlySettings(_)
OnlySettings(args) ==
    \/ args = << >>
    \/ /\ Len(args) >= 2
       /\ args[1] \in {"-e", "--env"}
       /\ args[2] # ""
       /\ OnlySettings(SubSeq(args, 3, Len(args)))
    \/ /\ \E prefix \in {"-e=", "--env="} :
              HasPrefix(args[1], prefix) /\ Len(args[1]) > Len(prefix)
       /\ OnlySettings(Tail(args))

\* the KEY[=VALUE] strings such a sequence sets, left to right
RECURSIVE SettingsIn(_)
SettingsIn(args) ==
    IF args = << >> THEN << >>
    ELSE IF args[1] \in {"-e", "--env"}
    THEN << args[2] >> \o SettingsIn(SubSeq(args, 3, Len(args)))
    ELSE IF HasPrefix(args[1], "-e=")
    THEN << SubSeq(args[1], 4, Len(args[1])) >> \o SettingsIn(Tail(args))
    ELSE << SubSeq(args[1], 7, Len(args[1])) >> \o SettingsIn(Tail(args))

\* C13: for a sequence of environment flags in any mix of the four forms,
\* extractUserEnvVars gives each key set once, with the value of the last
\* flag that sets it, however many flags set that key.
C13_LastSettingWins ==
    (scanPc \in {"find", "done"} /\ OnlySettings(scanArgs)) =>
        LET set == SettingsIn(scanArgs)
        IN  /\ DOMAIN xresult = { KeyPart(set[n]) : n \in 1 .. Len(set) }
            /\ \A n \in 1 .. Len(set) :
                   (\A m \in n + 1 .. Len(set) :
                        KeyPart(set[m]) # KeyPart(set[n])) =>
                       xresult[KeyPart(set[n])] = ValuePart(set[n])

C13_Witness ==
    /\ scanPc = "done"
    /\ scanArgs = << "-e", "A=1=2", "--env=A=1" >>
    /\ OnlySettings(scanArgs)
    /\ SettingsIn(scanArgs) = << "A=1=2", "A=1" >>
    /\ xresult = [A |-> "1"]

\* C14: on every token sequence both scanners return: each turn of either
\* loop moves its cursor forward and no cursor passes len(args) + 1, so
\* findImagePosition takes at most len(args) turns; no index of args at or
\* past len(args) is read, even with a value-consuming flag or "-e"/"--env"
\* as the last token; and findImagePosition gives -1 when no token (or none
\* at all) fails to start with "-".
C14_ScannersTerminate ==
    /\ [][ /\ (scanPc = "extract" /\ scanPc' = "extract") => xi' > xi
           /\ (scanPc = "find" /\ scanPc' = "find") => fi' > fi ]_vars
    /\ [](xi <= Len(scanArgs) + 1 /\ fi <= Len(scanArgs) + 1)
    /\ [](Len(fseen) <= Len(scanArgs))
    /\ [](reads \subseteq 0 .. Len(scanArgs) - 1)
    /\ []( ( scanPc = "done"
               /\ \A n \in 1 .. Len(scanArgs) : HasPrefix(scanArgs[n], "-") )
           => fret = -1 )

C14_Witness ==
    /\ scanPc = "done"
    /\ scanArgs = << "-d", "-d", "-e" >>
    /\ xi = 3
    /\ fi = 4
    /\ reads = {0, 1, 2}
    /\ fret = -1

\* C15: in run mode a vault secret is withheld from injection only when the
\* caller set its key with an environment flag lying in args[0:ImagePosition]
\* (all of args when there is no image); tokens at or after the image position
\* never cause a secret to be withheld.
C15_WithheldOnlyByRunOptions ==
    RunCall =>
        LET args   == opts.DockerArgs
            p      == findImagePosition(args)
            before == IF p >= 0 THEN SubSeq(args, 1, p) ELSE args
        IN  \A k \in DOMAIN secrets :
                InjectedFor(k) = {} => k \in DOMAIN extractUserEnvVars(before)

====
